---- MODULE Spec2Model ----
(***************************************************************************)
(* State-machine model of the emailer service (src/src/main.py): the       *)
(* in-memory session store _tokens, the /auth, /send, / and /iamalive      *)
(* handlers, the metrics sink and the log.                                  *)
(*                                                                         *)
(* Scheduling: every handler that touches _tokens is an `async def` that   *)
(* runs on the single event loop; smtplib calls and time.sleep block that  *)
(* loop.  A handler therefore runs without interleaving up to its `await`  *)
(* of the metrics sink, and the /send loop - which is split below into one *)
(* step per delivery attempt - excludes every other handler while it runs. *)
(* The wall clock (datetime.now) still advances inside a handler.          *)
(***************************************************************************)
EXTENDS Integers, Sequences, FiniteSets, TLC

\* ------------------------------------------------------------- bounds
\* Clock ticks per hour (resolution of the modelled clock).
TicksPerHour == 1
\* Longest recipient list of a /send request.
MaxRecipients == 2
\* Largest valid repeat_count tried by a /send request.
MaxRepeat == 2

\* ------------------------------------------------- program constants
TOKEN_EXPIRY_HOURS == 1
REPEAT_COUNT_GE == 1
REPEAT_COUNT_LE == 50
SUBJECT_MIN_LENGTH == 1
SUBJECT_MAX_LENGTH == 998
BODY_MIN_LENGTH == 1

\* timedelta(hours=TOKEN_EXPIRY_HOURS) in clock ticks
TTL == TOKEN_EXPIRY_HOURS * TicksPerHour

FERNET_KEY == "k0"

\* Last clock value explored: a session issued at 0 or 1 can be seen expired.
MaxTime == TTL + 1

\* Clock advance between two consecutive clock readings of one handler.
Drifts == {0, 1}

\* ------------------------------------------------------------- inputs
\* Raw tokens: what secrets.token_urlsafe can return and what a caller can present.
RawTokens == {1, 2}

\* AuthRequest bodies (after schema validation).
AuthRequests ==
  { [email |-> "a@x", password |-> "p1", smtp_host |-> "smtp.gmail.com", smtp_port |-> 465],
    [email |-> "b@x", password |-> "p2", smtp_host |-> "smtp.alt.org",   smtp_port |-> 587] }

\* What the relay answers to smtp.login in /auth.
LoginOutcomes == {"ok", "SMTPAuthenticationError", "SMTPException", "Exception"}

\* What one send_email call ends with.
SendOutcomes == {"ok", "SMTPAuthenticationError", "Exception"}

RecipientAddrs == {"r1@m", "r2@m"}

RECURSIVE SeqsUpTo(_, _)
SeqsUpTo(S, n) ==
  IF n = 0 THEN {<<>>}
  ELSE LET shorter == SeqsUpTo(S, n - 1)
       IN shorter \cup {Append(s, x) : s \in {t \in shorter : Len(t) = n - 1}, x \in S}

\* Recipient lists up to renaming of the addresses: empty, or starting with r1@m.
RecipientLists ==
  {rs \in SeqsUpTo(RecipientAddrs, MaxRecipients) : rs = <<>> \/ rs[1] = "r1@m"}

\* SendRequest bodies as they arrive (before schema validation): every
\* recipient list with every valid repeat_count, and bodies with a repeat_count
\* out of range or an empty subject.
SendRequests ==
  { [recipients |-> rs, subject |-> "hi", body |-> "text", repeat_count |-> rc] :
      rs \in RecipientLists, rc \in 1..MaxRepeat }
  \cup
  { [recipients |-> rs, subject |-> "hi", body |-> "text", repeat_count |-> rc] :
      rs \in {<<>>, <<"r1@m">>}, rc \in {-1, 0, REPEAT_COUNT_LE + 1} }
  \cup
  { [recipients |-> <<"r1@m">>, subject |-> "", body |-> "text", repeat_count |-> 1] }

\* -------------------------------------------------------------- state
VARIABLES
  now,        \* datetime.now(), in ticks
  tokens,     \* _tokens: lookup key -> session
  db,         \* _db: "None" or "client"
  sink,       \* update_one calls the last handler step made on the metrics sink
  log,        \* lines the last handler step wrote to the logger
  d,          \* the /send call in its delivery loop, or idle
  resp,       \* the response of the request that just finished, until it is sent
  issuedLog,  \* history: the successful issuances, in order
  resolved_ok,\* history: raw tokens that a /send call resolved successfully
  tasks       \* the coroutines in flight on the event loop, statement by statement

vars == <<now, tokens, db, sink, log, d, resp, issuedLog, resolved_ok, tasks>>

\* ------------------------------------------------------------ helpers
\* Mutant of hash_token: a digest that no longer depends on the token
hash_token_constant(token) == <<"sha256", 0>>

\* _hash_token: sha256 hex digest of the raw token
hash_token(token) == <<"sha256", token>>

\* _encrypt / _decrypt with the process-wide Fernet cipher
encrypt(data) == [fernet |-> FERNET_KEY, ct |-> <<"enc", data>>]

\* Mutant of decrypt: hands back the Fernet payload without unwrapping it
decrypt_raw(data) == data.ct

decrypt(data) == IF data.fernet = FERNET_KEY THEN data.ct[2] ELSE "InvalidToken"

\* Mutant of cleanup_expired_tokens: the sweep removes nothing
cleanup_nothing(toks, t) == toks

\* Mutant of cleanup_expired_tokens: an entry is swept from expires_at on
cleanup_from_expiry(toks, t) ==
  [h \in {k \in DOMAIN toks : ~(toks[k].expires_at <= t)} |-> toks[h]]

\* _cleanup_expired_tokens applied to store toks at clock reading t
cleanup_expired_tokens(toks, t) ==
  LET expired == {h \in DOMAIN toks : toks[h].expires_at < t}
  IN [h \in DOMAIN toks \ expired |-> toks[h]]

\* Mutant of DictSet: the store is rebound to a dict holding only the new entry
DictSet_rebind(f, k, v) == [x \in {k} |-> v]

\* dict item assignment / deletion
DictSet(f, k, v) == [x \in DOMAIN f \cup {k} |-> IF x = k THEN v ELSE f[x]]

DictDel(f, k) == [x \in DOMAIN f \ {k} |-> f[x]]

\* secrets.token_urlsafe(32): a token not returned before; the tokens are
\* interchangeable, so the least unused one stands for any of them
token_urlsafe(returned) ==
  {t \in RawTokens \ returned : \A u \in RawTokens \ returned : t <= u}

ReturnedTokens == {issuedLog[k].token : k \in 1..Len(issuedLog)}

NoCreds == [email |-> "", password |-> "", smtp_host |-> "", smtp_port |-> 0]

\* Mutant of get_smtp_creds: the expiry check after the lookup is missing
get_smtp_creds_no_expiry_check(toks, token, t1, t2) ==
  LET swept == cleanup_expired_tokens(toks, t1)
      token_hash == hash_token(token)
  IN IF token_hash \notin DOMAIN swept
     THEN [tokens |-> swept, status |-> 401,
           detail |-> "Invalid or expired token. Use /auth first.",
           creds |-> NoCreds, at |-> t1]
     ELSE [tokens |-> swept, status |-> 200, detail |-> "",
           creds |-> [email     |-> decrypt(swept[token_hash].email),
                      password  |-> decrypt(swept[token_hash].password),
                      smtp_host |-> swept[token_hash].smtp_host,
                      smtp_port |-> swept[token_hash].smtp_port],
           at |-> t2]

\* Mutant of get_smtp_creds: the expiry check reuses the sweep's clock reading
get_smtp_creds_stale_clock(toks, token, t1, t2) ==
  LET swept == cleanup_expired_tokens(toks, t1)
      token_hash == hash_token(token)
  IN IF token_hash \notin DOMAIN swept
     THEN [tokens |-> swept, status |-> 401,
           detail |-> "Invalid or expired token. Use /auth first.",
           creds |-> NoCreds, at |-> t1]
     ELSE [tokens |-> swept, status |-> 200, detail |-> "",
           creds |-> [email     |-> decrypt(swept[token_hash].email),
                      password  |-> decrypt(swept[token_hash].password),
                      smtp_host |-> swept[token_hash].smtp_host,
                      smtp_port |-> swept[token_hash].smtp_port],
           at |-> t2]

\* get_smtp_creds(token) on store toks; t1 is the clock reading of the sweep,
\* t2 the reading of the expiry check.  Yields the store left behind, the
\* outcome, and the last clock reading made.
get_smtp_creds(toks, token, t1, t2) ==
  LET swept == cleanup_expired_tokens(toks, t1)
      token_hash == hash_token(token)
  IN IF token_hash \notin DOMAIN swept
     THEN [tokens |-> swept, status |-> 401,
           detail |-> "Invalid or expired token. Use /auth first.",
           creds |-> NoCreds, at |-> t1]
     ELSE IF swept[token_hash].expires_at < t2
     THEN [tokens |-> DictDel(swept, token_hash), status |-> 401,
           detail |-> "Token expired. Re-authenticate.",
           creds |-> NoCreds, at |-> t2]
     ELSE [tokens |-> swept, status |-> 200, detail |-> "",
           creds |-> [email     |-> decrypt(swept[token_hash].email),
                      password  |-> decrypt(swept[token_hash].password),
                      smtp_host |-> swept[token_hash].smtp_host,
                      smtp_port |-> swept[token_hash].smtp_port],
           at |-> t2]

\* increment_metric(field, amount): the update_one call made on the sink, if
\* any; ok is whether that call returns rather than raises
increment_metric(field, amount, ok) ==
  IF db # "None" THEN <<[field |-> field, amount |-> amount, raised |-> ~ok]>> ELSE <<>>

\* what increment_metric logs
increment_metric_log(field, ok) ==
  IF db # "None" /\ ~ok THEN {<<"ERROR", "Failed to update metric", field>>} ELSE {}

\* Mutant of increment_metric_raises: update_one is called outside any try
increment_metric_unguarded(ok) == db # "None" /\ ~ok

\* Whether an exception leaves increment_metric: the except Exception clause
\* around update_one catches whatever the sink raises
increment_metric_raises(ok) == FALSE

Pending == [op |-> "none", status |-> 0]

\* A coroutine slot with no request in it
NoTask ==
  [pc |-> "done", kind |-> "none", token |-> 0, expired |-> {}, expires_at |-> 0,
   result |-> 0, overlap |-> FALSE, expiredAtStart |-> FALSE]

TaskIds == {1, 2}

Idle == [pc |-> "idle"]

\* --------------------------------------------------------------- Init
Init ==
  /\ now = 0
  /\ tokens = <<>>
  /\ db \in {"None", "client"}
  /\ sink = <<>>
  /\ log = {}
  /\ d = Idle
  /\ resp = Pending
  /\ issuedLog = <<>>
  /\ resolved_ok = {}
  /\ tasks = [running |-> 0, task |-> [t \in TaskIds |-> NoTask]]

\* ------------------------------------------------------------ actions
\* The response of the finished request goes out to the caller.
reply ==
  /\ d.pc = "idle"
  /\ resp # Pending
  /\ resp' = Pending
  /\ log' = {}
  /\ sink' = <<>>
  /\ UNCHANGED <<now, tokens, db, tasks, d, issuedLog, resolved_ok>>

\* Time passes between requests.
Tick ==
  /\ d.pc = "idle"
  /\ resp = Pending
  /\ now < MaxTime
  /\ now' = now + 1
  /\ UNCHANGED <<tokens, db, tasks, sink, log, d, resp, issuedLog, resolved_ok>>

\* GET /iamalive
health ==
  /\ d.pc = "idle"
  /\ resp = Pending
  /\ resp' = [op |-> "health", status |-> 200]
  /\ log' = {}
  /\ UNCHANGED <<now, tokens, db, tasks, sink, d, issuedLog, resolved_ok>>

\* GET /: get_metrics, sweep, dashboard with the number of active sessions
root ==
  /\ d.pc = "idle"
  /\ resp = Pending
  /\ tokens' = cleanup_expired_tokens(tokens, now)
  /\ resp' = [op |-> "root", status |-> 200,
              active_tokens |-> Cardinality(DOMAIN tokens')]
  /\ log' = {}
  /\ UNCHANGED <<now, db, tasks, sink, d, issuedLog, resolved_ok>>

\* Mutant of AuthFailure: one except clause answers every failure
AuthFailure_unclassified(outcome) ==
  [status |-> 500, detail |-> "Connection error", logline |-> "Unexpected error for"]

\* The HTTPException /auth raises for a failed smtp.login
AuthFailure(outcome) ==
  CASE outcome = "SMTPAuthenticationError" ->
         [status |-> 401, detail |-> "Invalid email or password. For Gmail, use an App Password.",
          logline |-> "SMTP auth failed for"]
    [] outcome = "SMTPException" ->
         [status |-> 400, detail |-> "SMTP connection failed", logline |-> "SMTP error for"]
    [] OTHER ->
         [status |-> 500, detail |-> "Connection error", logline |-> "Unexpected error for"]

\* POST /auth with body req; outcome is the relay's answer to smtp.login, token the
\* value of secrets.token_urlsafe, dt the clock advance between the two
\* datetime.now() readings, sink_ok whether the metrics update succeeds
authenticate(req, outcome, token, dt, sink_ok) ==
  /\ d.pc = "idle"
  /\ resp = Pending
  /\ db = "None" => sink_ok
  /\ now + dt <= MaxTime
  /\ IF outcome # "ok"
     THEN /\ dt = 0 /\ sink_ok /\ token = 1   \* none of the three is used on this path
          /\ log' = {<<"INFO", "Auth attempt for", req.email>>,
                               <<"ERROR", AuthFailure(outcome).logline, req.email>>}
          /\ resp' = [op |-> "auth", status |-> AuthFailure(outcome).status,
                      detail |-> AuthFailure(outcome).detail,
                      relay |-> outcome, store_before |-> tokens]
          /\ sink' = <<>>
          /\ UNCHANGED <<now, tokens, issuedLog>>
     ELSE LET token_hash == hash_token(token)
              expires == now + TTL
          IN /\ token \in token_urlsafe(ReturnedTokens)
             /\ tokens' = DictSet(tokens, token_hash,
                            [email      |-> encrypt(req.email),
                             password   |-> encrypt(req.password),
                             smtp_host  |-> req.smtp_host,
                             smtp_port  |-> req.smtp_port,
                             created_at |-> now + dt,
                             expires_at |-> expires])
             /\ now' = now + dt
             /\ sink' = increment_metric("tokens_issued", 1, sink_ok)
             /\ log' = {<<"INFO", "Auth attempt for", req.email>>,
                                  <<"INFO", "SMTP auth successful for", req.email>>,
                                  <<"INFO", "Token issued for", req.email>>}
                           \cup increment_metric_log("tokens_issued", sink_ok)
             /\ resp' = IF increment_metric_raises(sink_ok)
                        THEN [op |-> "auth", status |-> 500,
                              detail |-> "Internal Server Error",
                              relay |-> outcome, store_before |-> tokens]
                        ELSE [op |-> "auth", status |-> 200, token |-> token,
                              expires_in_hours |-> TOKEN_EXPIRY_HOURS,
                              relay |-> outcome, store_before |-> tokens]
             /\ issuedLog' = Append(issuedLog,
                               [token |-> token, email |-> req.email,
                                password |-> req.password, smtp_host |-> req.smtp_host,
                                smtp_port |-> req.smtp_port, expires |-> expires])
  /\ UNCHANGED <<db, tasks, d, resolved_ok>>

Auth ==
  \E req \in AuthRequests, outcome \in LoginOutcomes, token \in RawTokens,
     dt \in Drifts, sink_ok \in BOOLEAN :
       authenticate(req, outcome, token, dt, sink_ok)

\* Mutant of SendRequestValid: repeat_count has no upper bound
SendRequestValid_no_le(req) ==
  /\ Len(req.subject) >= SUBJECT_MIN_LENGTH
  /\ Len(req.subject) <= SUBJECT_MAX_LENGTH
  /\ Len(req.body) >= BODY_MIN_LENGTH
  /\ req.repeat_count >= REPEAT_COUNT_GE

\* SendRequest schema: the Field constraints of subject, body and repeat_count;
\* recipients is any list of addresses
SendRequestValid(req) ==
  /\ Len(req.subject) >= SUBJECT_MIN_LENGTH
  /\ Len(req.subject) <= SUBJECT_MAX_LENGTH
  /\ Len(req.body) >= BODY_MIN_LENGTH
  /\ req.repeat_count >= REPEAT_COUNT_GE
  /\ req.repeat_count <= REPEAT_COUNT_LE

\* The issuance that returned raw token t
IssuanceOf(t) == issuedLog[CHOOSE k \in 1..Len(issuedLog) : issuedLog[k].token = t]

\* History of one /send call, kept beside its program state
NewTrace(token) ==
  [resolved      |-> FALSE,   \* get_smtp_creds was called
   expiredAtCall |-> token \in ReturnedTokens /\ IssuanceOf(token).expires < now,
                              \* the token's session was past expires_at at the start
   at            |-> now,     \* last clock reading of get_smtp_creds
   inStoreAtCall |-> hash_token(token) \in DOMAIN tokens,
   creds         |-> NoCreds, \* what get_smtp_creds returned
   attempts      |-> 0,       \* send_email calls made
   delivered     |-> 0,       \* ... that the transport accepted
   faults        |-> 0,       \* ... that ended in a non-authentication fault
   rejectedAt    |-> 0,       \* number of the attempt the relay rejected the login of
   sleeps        |-> 0,       \* time.sleep calls made
   late          |-> FALSE]   \* an attempt was made past the session's expires_at
                              \* or with the session gone from the store

\* What the transport did in one more send_email call
Observe(tr, outcome) ==
  [tr EXCEPT !.attempts   = @ + 1,
             !.delivered  = IF outcome = "ok" THEN @ + 1 ELSE @,
             !.faults     = IF outcome = "Exception" THEN @ + 1 ELSE @,
             !.rejectedAt = IF outcome = "SMTPAuthenticationError" /\ @ = 0
                            THEN tr.attempts + 1 ELSE @]

\* Mutant of except_clause: the generic handler catches the authentication error
except_generic_only(outcome) ==
  CASE outcome = "ok" -> "sent"
    [] OTHER -> "failed"

\* Mutant of except_clause: a transport fault is logged but not counted
except_fault_uncounted(outcome) ==
  CASE outcome = "ok" -> "sent"
    [] outcome = "SMTPAuthenticationError" -> "raise"
    [] OTHER -> "logged"

\* The try/except around send_email: what the loop does with its outcome
except_clause(outcome) ==
  CASE outcome = "ok" -> "sent"
    [] outcome = "SMTPAuthenticationError" -> "raise"
    [] OTHER -> "failed"

\* if i < req.repeat_count - 1 or recipient != recipients[-1]: time.sleep(1)
pacing(i, repeat_count, recipient, recipients) ==
  i < repeat_count - 1 \/ recipient # recipients[Len(recipients)]

\* Mutant of loop_next: the inner loop runs range(repeat_count - 1), at least once
loop_next_short(ri, i, repeat_count) ==
  IF i + 1 < repeat_count - 1 THEN <<ri, i + 1>> ELSE <<ri + 1, 0>>

\* for recipient in recipients: for i in range(req.repeat_count): the position
\* <<ri, i>> after the pass at <<ri, i>>
loop_next(ri, i, repeat_count) ==
  IF i + 1 < repeat_count THEN <<ri, i + 1>> ELSE <<ri + 1, 0>>

\* POST /send, up to the loop: schema validation, get_smtp_creds, the locals.
\* dt is the clock advance between the two clock readings of get_smtp_creds.
send_begin(req, token, dt) ==
  /\ d.pc = "idle"
  /\ resp = Pending
  /\ now + dt <= MaxTime
  /\ IF ~SendRequestValid(req)
     THEN /\ dt = 0
          /\ resp' = [op |-> "send", status |-> 422, body |-> [detail |-> "validation error"],
                      token |-> token, recipients |-> req.recipients,
                      repeat_count |-> req.repeat_count, trace |-> NewTrace(token)]
          /\ log' = {}
          /\ UNCHANGED <<now, tokens, d, resolved_ok>>
     ELSE LET r == get_smtp_creds(tokens, token, now, now + dt)
              tr == [NewTrace(token) EXCEPT !.resolved = TRUE, !.at = r.at,
                                            !.creds = r.creds]
          IN /\ r.at = now + dt
             /\ tokens' = r.tokens
             /\ now' = r.at
             /\ IF r.status # 200
                THEN /\ resp' = [op |-> "send", status |-> r.status,
                                 body |-> [detail |-> r.detail],
                                 token |-> token, recipients |-> req.recipients,
                                 repeat_count |-> req.repeat_count, trace |-> tr]
                     /\ log' = {}
                     /\ UNCHANGED <<d, resolved_ok>>
                ELSE /\ d' = [pc |-> "loop", token |-> token, creds |-> r.creds,
                              recipients |-> req.recipients,
                              repeat_count |-> req.repeat_count,
                              ri |-> 1, i |-> 0, sent |-> 0, failed |-> 0, trace |-> tr]
                     /\ resp' = Pending
                     /\ log' = {<<"INFO", "Sending to", "recipient(s)">>}
                     /\ resolved_ok' = resolved_ok \cup {token}
  /\ sink' = <<>>
  /\ UNCHANGED <<db, tasks, issuedLog>>

\* One pass of the loop body of /send: send_email to the current recipient ends
\* with outcome, then the pacing sleep and the step to the next (recipient, i).
\* dt is the clock advance during the pass; after the last pass of a call time
\* advances as between requests.
send_attempt(outcome, dt) ==
  /\ d.pc = "loop"
  /\ d.ri <= Len(d.recipients)
  /\ now + dt <= MaxTime
  /\ (except_clause(outcome) = "raise"
        \/ loop_next(d.ri, d.i, d.repeat_count)[1] > Len(d.recipients)) => dt = 0
  /\ now' = now + dt
  /\ LET recipient == d.recipients[d.ri]
         tr == [Observe(d.trace, outcome) EXCEPT
                  !.late = \/ @
                           \/ IssuanceOf(d.token).expires < now
                           \/ hash_token(d.token) \notin DOMAIN tokens]
         what == except_clause(outcome)
     IN IF what = "raise"
        THEN /\ resp' = [op |-> "send", status |-> 401,
                         body |-> [detail |-> "SMTP authentication failed. Your token may be invalid."],
                         token |-> d.token, recipients |-> d.recipients,
                         repeat_count |-> d.repeat_count, trace |-> tr]
             /\ log' = {<<"ERROR", "Auth failed during send", outcome>>}
             /\ d' = Idle
        ELSE LET sleep == pacing(d.i, d.repeat_count, recipient, d.recipients)
                 pos == loop_next(d.ri, d.i, d.repeat_count)
             IN /\ d' = [d EXCEPT
                          !.sent   = IF what = "sent" THEN @ + 1 ELSE @,
                          !.failed = IF what = "failed" THEN @ + 1 ELSE @,
                          !.ri     = pos[1],
                          !.i      = pos[2],
                          !.trace  = [tr EXCEPT !.sleeps = IF sleep THEN @ + 1 ELSE @]]
                /\ log' = IF what = "sent"
                          THEN {<<"INFO", "Email sent to", recipient>>}
                          ELSE {<<"ERROR", "Failed to", recipient>>}
                /\ UNCHANGED resp
  /\ UNCHANGED <<tokens, db, tasks, sink, issuedLog, resolved_ok>>

\* /send after the loop: the emails_sent metric and the SendResponse.
send_end(sink_ok) ==
  /\ d.pc = "loop"
  /\ d.ri > Len(d.recipients)
  /\ (d.sent = 0 \/ db = "None") => sink_ok
  /\ sink' = IF d.sent > 0 THEN increment_metric("emails_sent", d.sent, sink_ok) ELSE <<>>
  /\ log' = IF d.sent > 0 THEN increment_metric_log("emails_sent", sink_ok) ELSE {}
  /\ resp' = IF d.sent > 0 /\ increment_metric_raises(sink_ok)
             THEN [op |-> "send", status |-> 500, detail |-> "Internal Server Error",
                   token |-> d.token, recipients |-> d.recipients,
                   repeat_count |-> d.repeat_count, trace |-> d.trace]
             ELSE [op |-> "send", status |-> 200,
                   body |-> [sent |-> d.sent, failed |-> d.failed,
                             success |-> (d.failed = 0),
                             message |-> <<"Sent", d.sent, d.sent + d.failed>>],
                   token |-> d.token, recipients |-> d.recipients,
                   repeat_count |-> d.repeat_count, trace |-> d.trace]
  /\ d' = Idle
  /\ UNCHANGED <<now, tokens, db, tasks, issuedLog, resolved_ok>>

SendBegin == \E req \in SendRequests, token \in RawTokens, dt \in Drifts : send_begin(req, token, dt)

SendAttempt == \E outcome \in SendOutcomes, dt \in Drifts : send_attempt(outcome, dt)

SendEnd == \E sink_ok \in BOOLEAN : send_end(sink_ok)

Next == reply \/ Tick \/ health \/ root \/ Auth \/ SendBegin \/ SendAttempt \/ SendEnd

Spec == Init /\ [][Next]_vars

\* ------------------------------------------- the event loop, by statement
\* The handlers are coroutines of one event loop. The actions below follow the
\* statements that read or write _tokens one at a time; tasks.running is the
\* coroutine that holds the loop, 0 when the loop is free.

\* Mutant of yields: control can pass to another request after any statement
yields_anywhere(pc) == TRUE

\* Where a coroutine gives the loop back: at an await and when it returns
yields(pc) == pc \in {"await", "done"}

MayRun(t) == tasks.running \in {0, t}

\* Coroutine t has executed a statement and is now as rec says
Ran(t, rec) ==
  tasks' = [running |-> IF yields(rec.pc) THEN 0 ELSE t,
            task |-> [tasks.task EXCEPT ![t] = rec]]

Returned(rec, status) ==
  [rec EXCEPT !.pc = "done", !.result = status, !.expired = {}, !.expires_at = 0]

AuthInFlight == Cardinality({u \in TaskIds : tasks.task[u].pc = "store"})

\* A request arrives: / (root), /auth past smtp login, or /send
task_start(t, kind, token) ==
  /\ tasks.task[t].pc = "done"
  /\ kind = "auth" => Len(issuedLog) + AuthInFlight < Cardinality(RawTokens)
  /\ kind # "send" => token = 1
  /\ tasks' = [tasks EXCEPT !.task[t] =
        [pc |-> CASE kind = "auth" -> "store"
                  [] kind = "root" -> "await"
                  [] kind = "send" -> "collect",
         kind |-> kind, token |-> token, expired |-> {}, expires_at |-> 0, result |-> 0,
         overlap |-> \E u \in TaskIds \ {t} : tasks.task[u].pc # "done",
         expiredAtStart |-> /\ kind = "send"
                            /\ token \in ReturnedTokens
                            /\ IssuanceOf(token).expires < now]]
  /\ UNCHANGED <<now, tokens, db, sink, log, d, resp, issuedLog, resolved_ok>>

\* authenticate: the token is drawn and the session stored, up to the await
auth_store(t, req) ==
  /\ tasks.task[t].pc = "store"
  /\ MayRun(t)
  /\ \E token \in token_urlsafe(ReturnedTokens) :
        /\ tokens' = DictSet(tokens, hash_token(token),
                        [email      |-> encrypt(req.email),
                         password   |-> encrypt(req.password),
                         smtp_host  |-> req.smtp_host,
                         smtp_port  |-> req.smtp_port,
                         created_at |-> now,
                         expires_at |-> now + TTL])
        /\ issuedLog' = Append(issuedLog,
                          [token |-> token, email |-> req.email,
                           password |-> req.password, smtp_host |-> req.smtp_host,
                           smtp_port |-> req.smtp_port, expires |-> now + TTL])
        /\ Ran(t, [tasks.task[t] EXCEPT !.pc = "await", !.token = token])
  /\ UNCHANGED <<now, db, sink, log, d, resp, resolved_ok>>

\* The awaited metrics call has finished: root goes on to its sweep,
\* authenticate returns the token
await_resume(t) ==
  /\ tasks.task[t].pc = "await"
  /\ MayRun(t)
  /\ Ran(t, IF tasks.task[t].kind = "root"
            THEN [tasks.task[t] EXCEPT !.pc = "collect"]
            ELSE Returned(tasks.task[t], 200))
  /\ UNCHANGED <<now, tokens, db, sink, log, d, resp, issuedLog, resolved_ok>>

\* _cleanup_expired_tokens: the list of expired keys is built
cleanup_collect(t) ==
  /\ tasks.task[t].pc = "collect"
  /\ MayRun(t)
  /\ Ran(t, [tasks.task[t] EXCEPT !.pc = "delete",
              !.expired = {h \in DOMAIN tokens : tokens[h].expires_at < now}])
  /\ UNCHANGED <<now, tokens, db, sink, log, d, resp, issuedLog, resolved_ok>>

\* _cleanup_expired_tokens: the listed keys are deleted; del raises KeyError
\* (answered 500) for a key that is no longer there
cleanup_delete(t) ==
  LET me == tasks.task[t] IN
  /\ me.pc = "delete"
  /\ MayRun(t)
  /\ tokens' = [h \in DOMAIN tokens \ me.expired |-> tokens[h]]
  /\ Ran(t, IF ~(me.expired \subseteq DOMAIN tokens) THEN Returned(me, 500)
            ELSE IF me.kind = "root" THEN Returned(me, 200)
            ELSE [me EXCEPT !.pc = "check", !.expired = {}])
  /\ UNCHANGED <<now, db, sink, log, d, resp, issuedLog, resolved_ok>>

\* get_smtp_creds: if token_hash not in _tokens
creds_check(t) ==
  LET me == tasks.task[t] IN
  /\ me.pc = "check"
  /\ MayRun(t)
  /\ Ran(t, IF hash_token(me.token) \notin DOMAIN tokens
            THEN Returned(me, 401)
            ELSE [me EXCEPT !.pc = "read"])
  /\ UNCHANGED <<now, tokens, db, sink, log, d, resp, issuedLog, resolved_ok>>

\* get_smtp_creds: data = _tokens[token_hash]
creds_read(t) ==
  LET me == tasks.task[t] IN
  /\ me.pc = "read"
  /\ MayRun(t)
  /\ Ran(t, IF hash_token(me.token) \notin DOMAIN tokens
            THEN Returned(me, 500)
            ELSE [me EXCEPT !.pc = "expiry",
                            !.expires_at = tokens[hash_token(me.token)].expires_at])
  /\ UNCHANGED <<now, tokens, db, sink, log, d, resp, issuedLog, resolved_ok>>

\* get_smtp_creds: if data["expires_at"] < datetime.now()
creds_expiry(t) ==
  LET me == tasks.task[t] IN
  /\ me.pc = "expiry"
  /\ MayRun(t)
  /\ Ran(t, IF me.expires_at < now
            THEN [me EXCEPT !.pc = "del"]
            ELSE Returned(me, 200))
  /\ UNCHANGED <<now, tokens, db, sink, log, d, resp, issuedLog, resolved_ok>>

\* get_smtp_creds: del _tokens[token_hash], then the 401
creds_del(t) ==
  LET me == tasks.task[t] IN
  /\ me.pc = "del"
  /\ MayRun(t)
  /\ IF hash_token(me.token) \notin DOMAIN tokens
     THEN /\ Ran(t, Returned(me, 500))
          /\ UNCHANGED tokens
     ELSE /\ tokens' = DictDel(tokens, hash_token(me.token))
          /\ Ran(t, Returned(me, 401))
  /\ UNCHANGED <<now, db, sink, log, d, resp, issuedLog, resolved_ok>>

TaskStart ==
  \E t \in TaskIds, kind \in {"auth", "root", "send"}, token \in RawTokens :
    task_start(t, kind, token)

AuthStore == \E t \in TaskIds, req \in AuthRequests : auth_store(t, req)

AwaitResume == \E t \in TaskIds : await_resume(t)

CleanupCollect == \E t \in TaskIds : cleanup_collect(t)

CleanupDelete == \E t \in TaskIds : cleanup_delete(t)

CredsCheck == \E t \in TaskIds : creds_check(t)

CredsRead == \E t \in TaskIds : creds_read(t)

CredsExpiry == \E t \in TaskIds : creds_expiry(t)

CredsDel == \E t \in TaskIds : creds_del(t)

NextTasks ==
  \/ Tick \/ TaskStart \/ AuthStore \/ AwaitResume \/ CleanupCollect
  \/ CleanupDelete \/ CredsCheck \/ CredsRead \/ CredsExpiry \/ CredsDel

SpecTasks == Init /\ [][NextTasks]_vars

\* ------------------------------------------------------ vocabulary
Issued(t) == t \in ReturnedTokens

ExpiresOf(t) == IssuanceOf(t).expires

\* The credential and endpoint submitted with the issuance of raw token t
InfoOf(t) ==
  [email |-> IssuanceOf(t).email, password |-> IssuanceOf(t).password,
   smtp_host |-> IssuanceOf(t).smtp_host, smtp_port |-> IssuanceOf(t).smtp_port]

\* The /send calls visible in a state: the one in its loop, the one just finished
Calls ==
  (IF d.pc = "loop" THEN {[token |-> d.token, trace |-> d.trace, running |-> TRUE]} ELSE {})
  \cup
  (IF resp.op = "send"
   THEN {[token |-> resp.token, trace |-> resp.trace, running |-> FALSE]} ELSE {})

InvalidDetail == "Invalid or expired token. Use /auth first."

ExpiredDetail == "Token expired. Re-authenticate."

\* The finished /send call ended in get_smtp_creds raising
ResolveFailed == resp.op = "send" /\ resp.trace.resolved /\ resp.trace.creds = NoCreds

\* ------------------------------------------------------------ claims
\* C1 (as stated): a resolve of a token whose session has expires_at in the past
\* returns the token-expired error and no decrypted session.
C1_ExpiredGetsTokenExpiredError ==
  \A c \in Calls :
    (c.trace.resolved /\ Issued(c.token) /\ ExpiresOf(c.token) < c.trace.at)
      => /\ ~c.running
         /\ c.trace.creds = NoCreds
         /\ resp.status = 401
         /\ resp.body.detail = ExpiredDetail

\* C1 (amended): a resolve of a token whose session has expires_at in the past
\* returns a 401 error and never a decrypted session, and no delivery is
\* attempted; the error is the invalid-or-expired-token error when the session was
\* already expired when resolve started (its opening sweep removes the entry), and
\* the token-expired error only when the session expires between the sweep and
\* the expiry check.
C1_ExpiredNeverResolves ==
  \A c \in Calls :
    (c.trace.resolved /\ Issued(c.token) /\ ExpiresOf(c.token) < c.trace.at)
      => /\ ~c.running
         /\ c.trace.creds = NoCreds
         /\ c.trace.attempts = 0
         /\ resp.status = 401
         /\ hash_token(c.token) \notin DOMAIN tokens
         /\ resp.body.detail = IF c.trace.expiredAtCall
                                THEN InvalidDetail ELSE ExpiredDetail

\* C1 witness: an expired session still in the store (no sweep ran since it
\* expired) is presented and refused.
C1_Witness ==
  /\ ResolveFailed
  /\ Issued(resp.token)
  /\ resp.trace.expiredAtCall
  /\ resp.trace.inStoreAtCall

\* C2: a resolve of an issued token whose clock readings are not past the
\* session's expires_at returns exactly the identity, secret, host and port
\* submitted at its issuance.
C2_ResolveReturnsIssued ==
  \A c \in Calls :
    (c.trace.resolved /\ Issued(c.token) /\ c.trace.at <= ExpiresOf(c.token))
      => c.trace.creds = InfoOf(c.token)

\* C2 witness: the first of two sessions with different credentials is resolved
\* after the second one was issued.
C2_Witness ==
  /\ resp.op = "send"
  /\ Len(issuedLog) = 2
  /\ resp.token = issuedLog[1].token
  /\ resp.trace.creds = InfoOf(resp.token)
  /\ InfoOf(issuedLog[2].token) # InfoOf(resp.token)

\* C3: when attempt k is rejected by the relay as an authentication failure the
\* batch is aborted: the k-1 earlier attempts and attempt k are all the attempts
\* made, and the caller gets a 401 error with no summary.
C3_AuthRejectAborts ==
  \A c \in Calls :
    c.trace.rejectedAt > 0
      => /\ ~c.running
         /\ c.trace.attempts = c.trace.rejectedAt
         /\ c.trace.delivered + c.trace.faults = c.trace.rejectedAt - 1
         /\ resp.status = 401
         /\ DOMAIN resp.body = {"detail"}

\* C3 witness: the second attempt of a batch of four is rejected after one
\* success.
C3_Witness ==
  /\ resp.op = "send"
  /\ resp.trace.rejectedAt = 2
  /\ resp.trace.delivered = 1
  /\ Len(resp.recipients) * resp.repeat_count = 4

\* C4: a dispatch in which some attempts end in a non-authentication fault and
\* none is rejected still makes all n*r attempts and returns the summary with
\* failed = faulted attempts, sent = successful attempts, sent + failed =
\* attempts made, success = (failed = 0).
C4_FaultsAreCounted ==
  /\ d.pc = "loop" =>
       /\ d.sent = d.trace.delivered
       /\ d.failed = d.trace.faults
       /\ d.sent + d.failed = d.trace.attempts
  /\ (resp.op = "send" /\ resp.trace.faults > 0 /\ resp.trace.rejectedAt = 0) =>
       /\ resp.status = 200
       /\ resp.trace.attempts = Len(resp.recipients) * resp.repeat_count
       /\ resp.body.failed = resp.trace.faults
       /\ resp.body.sent = resp.trace.delivered
       /\ resp.body.sent + resp.body.failed = resp.trace.attempts
       /\ resp.body.success = (resp.body.failed = 0)
       /\ ~resp.body.success

\* C4 witness: a batch of four attempts with one fault and three successes.
C4_Witness ==
  /\ resp.op = "send"
  /\ resp.status = 200
  /\ resp.trace.attempts = 4
  /\ resp.body.failed = 1
  /\ resp.body.sent = 3

\* C5: a dispatch whose n*r attempts all succeed makes exactly n*r attempts and
\* returns sent = n*r, failed = 0, success = true.
C5_AllSucceed ==
  (/\ resp.op = "send"
   /\ resp.trace.creds # NoCreds
   /\ resp.trace.faults = 0
   /\ resp.trace.rejectedAt = 0) =>
     /\ resp.status = 200
     /\ resp.trace.attempts = Len(resp.recipients) * resp.repeat_count
     /\ resp.trace.delivered = Len(resp.recipients) * resp.repeat_count
     /\ resp.body.sent = Len(resp.recipients) * resp.repeat_count
     /\ resp.body.failed = 0
     /\ resp.body.success

\* C5 witness: two recipients, each addressed MaxRepeat times, all delivered.
C5_Witness ==
  /\ resp.op = "send"
  /\ resp.status = 200
  /\ Len(resp.recipients) = 2
  /\ resp.repeat_count = MaxRepeat
  /\ resp.body.sent = 2 * MaxRepeat
  /\ resp.body.success

\* C6 (as stated): a /send request with an empty recipient list is answered by a
\* validation error, before the token is resolved, and never by a summary.
C6_EmptyRecipientsRejected ==
  (resp.op = "send" /\ resp.recipients = <<>>) =>
     /\ resp.status = 422
     /\ ~resp.trace.resolved
     /\ "sent" \notin DOMAIN resp.body

\* C7: a /send request with repeat_count below 1 or above 50 is answered by a
\* validation error before get_smtp_creds is called and before any delivery
\* attempt; no call in its loop has such a repeat_count.
C7_RepeatCountValidated ==
  /\ d.pc = "loop" => d.repeat_count \in REPEAT_COUNT_GE..REPEAT_COUNT_LE
  /\ (resp.op = "send" /\ resp.repeat_count \notin REPEAT_COUNT_GE..REPEAT_COUNT_LE) =>
       /\ resp.status = 422
       /\ ~resp.trace.resolved
       /\ resp.trace.attempts = 0

\* C7 witness: repeat_count = 51 is refused while an expired session is still
\* in the store, i.e. without the sweep of get_smtp_creds having run.
C7_Witness ==
  /\ resp.op = "send"
  /\ resp.status = 422
  /\ resp.repeat_count = REPEAT_COUNT_LE + 1
  /\ \E h \in DOMAIN tokens : tokens[h].expires_at < now

\* C8: a /send call makes delivery attempts only after get_smtp_creds, called in
\* that same call, returned the session of the presented token at a clock
\* reading not past its expires_at; a call whose resolve fails makes no attempt,
\* whatever earlier calls resolved.
C8_ResolveGatesEveryCall ==
  \A c \in Calls :
    /\ (c.running \/ c.trace.attempts > 0) =>
          /\ c.trace.resolved
          /\ Issued(c.token)
          /\ c.trace.at <= ExpiresOf(c.token)
          /\ c.trace.creds # NoCreds
    /\ (c.trace.resolved /\ c.trace.creds = NoCreds) =>
          /\ ~c.running
          /\ c.trace.attempts = 0
          /\ resp.status = 401

\* C8 witness: a token that an earlier call resolved successfully is refused in
\* a later call, with no attempt made.
C8_Witness ==
  /\ ResolveFailed
  /\ resp.token \in resolved_ok
  /\ resp.trace.attempts = 0

\* C9: when resolve returns credentials they are those of the session created
\* with the presented raw token, and a raw token that was never issued gets the
\* invalid-token error.
C9_ResolveOnlyOwnSession ==
  \A c \in Calls :
    /\ c.trace.creds # NoCreds => (Issued(c.token) /\ c.trace.creds = InfoOf(c.token))
    /\ (c.trace.resolved /\ ~Issued(c.token)) =>
          /\ ~c.running
          /\ resp.status = 401
          /\ resp.body.detail = InvalidDetail

\* C9 witness: a never-issued raw token is refused while the store holds
\* another token's unexpired session.
C9_Witness ==
  /\ ResolveFailed
  /\ ~Issued(resp.token)
  /\ resp.body.detail = InvalidDetail
  /\ \E h \in DOMAIN tokens : tokens[h].expires_at >= now

\* C10: any two issuances have distinct raw tokens and distinct store keys, and
\* every issuance whose expires_at is not in the past has its own store entry,
\* with its own expires_at and credentials, whatever happened to the others.
C10_IndependentSessions ==
  /\ \A i, j \in 1..Len(issuedLog) :
        i # j => /\ issuedLog[i].token # issuedLog[j].token
                 /\ hash_token(issuedLog[i].token) # hash_token(issuedLog[j].token)
  /\ \A k \in 1..Len(issuedLog) :
        now <= issuedLog[k].expires =>
          LET h == hash_token(issuedLog[k].token)
          IN /\ h \in DOMAIN tokens
             /\ tokens[h].expires_at = issuedLog[k].expires
             /\ decrypt(tokens[h].email) = issuedLog[k].email
             /\ decrypt(tokens[h].password) = issuedLog[k].password

\* C10 witness: of two sessions of the same identity the first has expired and
\* left the store, and the second is resolved successfully.
C10_Witness ==
  /\ Len(issuedLog) = 2
  /\ issuedLog[1].email = issuedLog[2].email
  /\ issuedLog[1].expires # issuedLog[2].expires
  /\ hash_token(issuedLog[1].token) \notin DOMAIN tokens
  /\ resp.op = "send"
  /\ resp.status = 200
  /\ resp.token = issuedLog[2].token
  /\ resp.trace.creds = InfoOf(issuedLog[2].token)

\* ---------------------------------------------------------------------------
\* C11: an issuance whose relay login is accepted adds exactly one session to
\* the store and leaves the others as they were; an issuance that fails by
\* credential rejection, relay connection fault or unexpected fault leaves
\* the store unchanged and returns no token, and each of the three failures
\* is answered with its own classification (401, 400, 500).
C11_IssuanceAddsOneOrNone ==
  resp.op = "auth" =>
    /\ (resp.status = 200) <=> (resp.relay = "ok")
    /\ resp.status = 200 =>
         LET h == hash_token(resp.token) IN
           /\ h \notin DOMAIN resp.store_before
           /\ DOMAIN tokens = DOMAIN resp.store_before \cup {h}
           /\ \A k \in DOMAIN resp.store_before : tokens[k] = resp.store_before[k]
    /\ resp.status # 200 =>
         /\ tokens = resp.store_before
         /\ "token" \notin DOMAIN resp
         /\ resp.relay = "SMTPAuthenticationError" => resp.status = 401
         /\ resp.relay = "SMTPException" => resp.status = 400
         /\ resp.relay = "Exception" => resp.status = 500

\* A relay connection fault answered 400 while the store holds a session
C11_Witness ==
  /\ resp.op = "auth"
  /\ resp.relay = "SMTPException"
  /\ resp.status = 400
  /\ DOMAIN tokens # {}

\* ---------------------------------------------------------------------------
\* C12: when the metrics sink is unavailable or its update fails, an accepted
\* issuance still stores the session and returns the token, and a dispatch
\* that was not aborted still returns its summary; the sink's failure is not
\* surfaced to the caller.
SinkDown == db = "None" \/ (sink # <<>> /\ sink[1].raised)

C12_SinkNeverChangesOutcome ==
  SinkDown =>
    /\ (resp.op = "auth" /\ resp.relay = "ok") =>
         /\ resp.status = 200
         /\ "token" \in DOMAIN resp
         /\ hash_token(resp.token) \in DOMAIN tokens
    /\ (resp.op = "send" /\ resp.trace.creds # NoCreds /\ resp.trace.rejectedAt = 0) =>
         /\ resp.status = 200
         /\ resp.body.sent = resp.trace.delivered
         /\ resp.body.failed = resp.trace.faults

\* A dispatch summary returned although the emails_sent update raised
C12_Witness ==
  /\ resp.op = "send"
  /\ resp.status = 200
  /\ resp.body.sent > 0
  /\ sink # <<>>
  /\ sink[1].raised

\* ---------------------------------------------------------------------------
\* C13: in every reachable state no log line carries the plaintext identity
\* or the plaintext secret of a session, every stored identity and secret is
\* ciphertext, and every key of the store is a digest, never a raw token.
C13_NoPlaintextStoredOrLogged ==
  /\ \A k \in 1..Len(issuedLog) : \A line \in log :
        line[3] \notin {issuedLog[k].email, issuedLog[k].password}
  /\ \A h \in DOMAIN tokens :
        /\ h[1] = "sha256"
        /\ tokens[h].email.ct[1] = "enc"
        /\ tokens[h].password.ct[1] = "enc"

\* ---------------------------------------------------------------------------
\* C14: a dispatch that was not aborted sleeps after every attempt except the
\* last one, that is exactly (attempts - 1) times, whatever the accepted
\* recipient list and repeat count.
C14_PacingAfterAllButLast ==
  (resp.op = "send" /\ resp.status = 200 /\ resp.trace.attempts > 0) =>
    resp.trace.sleeps = resp.trace.attempts - 1

\* ---------------------------------------------------------------------------
\* C15: while a dispatch is between two attempts, having slept at least once,
\* an issuance or another dispatch call can take a step.
InPacingDelay == d.pc = "loop" /\ d.trace.sleeps > 0 /\ d.ri <= Len(d.recipients)

C15_OthersProgressDuringPacing ==
  InPacingDelay => ((ENABLED Auth) \/ (ENABLED SendBegin))

\* ---------------------------------------------------------------------------
\* C16: every stored session has expires_at = created_at + TTL, also when the
\* clock advances while the issuance runs.
C16_ExpiryIsCreationPlusTTL ==
  \A h \in DOMAIN tokens : tokens[h].expires_at = tokens[h].created_at + TTL

\* ---------------------------------------------------------------------------
\* C17: the sweep run by the dashboard removes exactly the entries whose
\* expires_at is in the past and leaves the others as they were; and no step
\* of any operation removes or modifies a session whose expires_at is not in
\* the past at the latest clock reading of that step.
C17_OnlyExpiredRemoved ==
  [][ /\ \A h \in DOMAIN tokens :
            ~(tokens[h].expires_at < now') =>
               (h \in DOMAIN tokens' /\ tokens'[h] = tokens[h])
      /\ (resp.op = "none" /\ resp'.op = "root") =>
            /\ DOMAIN tokens' = {h \in DOMAIN tokens : ~(tokens[h].expires_at < now)}
            /\ resp'.active_tokens = Cardinality(DOMAIN tokens')
    ]_vars

\* The dashboard answered after a sweep that removed one issued session and
\* kept another
C17_Witness ==
  /\ resp.op = "root"
  /\ resp.active_tokens = 1
  /\ \E k \in 1..Len(issuedLog) :
        /\ issuedLog[k].expires < now
        /\ hash_token(issuedLog[k].token) \notin DOMAIN tokens
  /\ \E j \in 1..Len(issuedLog) :
        /\ ~(issuedLog[j].expires < now)
        /\ hash_token(issuedLog[j].token) \in DOMAIN tokens

\* ---------------------------------------------------------------------------
\* C18: under every interleaving the event loop allows, the statements of a
\* resolve from its sweep to its return run without any other sweep, resolve
\* or store access in between: no access raises KeyError for an entry another
\* request removed after the presence check, and every resolve of a token
\* that was expired when the request arrived ends with the 401 authorization
\* error, also when two such requests are in flight together.
StoreSection == {"delete", "check", "read", "expiry", "del"}

C18_ResolveIsAtomic ==
  /\ \A t \in TaskIds : tasks.task[t].result # 500
  /\ \A t \in TaskIds :
        (tasks.task[t].kind = "send" /\ tasks.task[t].pc = "done"
           /\ tasks.task[t].expiredAtStart) => tasks.task[t].result = 401
  /\ \A t, u \in TaskIds :
        (t # u /\ tasks.task[t].pc \in StoreSection) =>
           tasks.task[u].pc \notin StoreSection

\* Two resolves of the same expired token, in flight together, both answered 401
C18_Witness ==
  /\ \A t \in TaskIds :
        /\ tasks.task[t].kind = "send"
        /\ tasks.task[t].pc = "done"
        /\ tasks.task[t].expiredAtStart
        /\ tasks.task[t].result = 401
  /\ tasks.task[1].token = tasks.task[2].token
  /\ tasks.task[2].overlap

\* ---------------------------------------------------------------------------
\* C19: with a working sink, every /send call that delivered something, also
\* one aborted by a credential rejection, reports to emails_sent exactly the
\* number of deliveries that succeeded in that call.
C19_EveryCallReportsItsDeliveries ==
  (/\ resp.op = "send"
   /\ resp.trace.delivered > 0
   /\ db = "client"
   /\ \A i \in 1..Len(sink) : ~sink[i].raised) =>
     \E i \in 1..Len(sink) :
       /\ sink[i].field = "emails_sent"
       /\ sink[i].amount = resp.trace.delivered

\* ---------------------------------------------------------------------------
\* C20 as stated: every delivery attempt of a /send call is made while the
\* session that authorized the call is unexpired and present in the store.
C20_NoAttemptAfterExpiry ==
  \A c \in Calls : ~c.trace.late

\* C20, amended: every delivery attempt of a /send call uses the credential of
\* a session that was present in the store and not past expires_at at the
\* clock reading of the call's own get_smtp_creds; the session stays in the
\* store, unmodified, for as long as the batch runs, but it is not looked at
\* again and may expire before later attempts of the batch.
C20_AuthorizedAtResolve ==
  /\ \A c \in Calls :
        c.trace.attempts > 0 =>
          /\ c.trace.inStoreAtCall
          /\ c.trace.at <= ExpiresOf(c.token)
          /\ c.trace.creds = InfoOf(c.token)
  /\ d.pc = "loop" =>
        /\ hash_token(d.token) \in DOMAIN tokens
        /\ tokens[hash_token(d.token)].expires_at = ExpiresOf(d.token)
        /\ d.creds = d.trace.creds

\* A batch that finished with a delivery made after its session had expired
C20_Witness ==
  /\ resp.op = "send"
  /\ resp.status = 200
  /\ resp.trace.late
  /\ resp.trace.delivered = resp.trace.attempts
  /\ resp.trace.at <= ExpiresOf(resp.token)

====
